---- MODULE Spec2Model ----
(***************************************************************************)
(* Model of betfairlightweight/streaming/cache.py.                         *)
(*                                                                         *)
(* SpecLadder exercises one Available ladder (constructor, update, clear). *)
(* SpecMarket and SpecFields exercise one MarketBookCache, update_cache    *)
(* being unfolded into the steps of its loops so that the points between   *)
(* two runner entries are states of the model.  The two differ in the      *)
(* deltas they feed: SpecMarket has several runner keys, definitions and a *)
(* market tv but few runner fields; SpecFields has every field of one      *)
(* runner beside a second runner.                                          *)
(* SpecOrder exercises one OrderBookCache, update_cache unfolded into the  *)
(* steps of its loop; SpecRace exercises one RaceCache, update_cache being *)
(* one step.  Every specification leaves the objects of the others as      *)
(* their constructors made them.                                           *)
(*                                                                         *)
(* Python None is the empty sequence <<>>, a present value v is <<v>>.     *)
(* A row of a ladder is a sequence of numbers; Python index k is TLA+      *)
(* index k + 1.                                                            *)
(***************************************************************************)
EXTENDS Integers, Sequences, FiniteSets, TLC

VARIABLES
    ladder,        \* the Available object: prices, deletion_select, reverse, serialise
    lbefore,       \* history: the ladder as it was before the last call
    lop,           \* history: the last call made on the ladder and its argument
    linit,         \* history: whether the rows the ladder was constructed from had
                   \* pairwise distinct identities (field 0)
    publish_time,      \* MarketBookCache.publish_time
    total_matched,     \* MarketBookCache.total_matched
    market_definition, \* MarketBookCache.market_definition (the keys the cache reads)
    definition_status, \* MarketBookCache._definition_status
    runners,           \* MarketBookCache.runners, a list of RunnerBook objects
    runner_dict,       \* MarketBookCache.runner_dict: (selection_id, handicap) -> index
                       \* in runners of the object the key refers to
    number_of_runners, \* MarketBookCache._number_of_runners
    pc,            \* where the running update_cache call stands ("idle": none runs)
    new_data,      \* the loop variable of update_cache / _process_market_definition
    cur,           \* the local variable runner, as an index in runners (0: unset)
    found,         \* whether the lookup of the current entry found a runner
    created,       \* history: keys of the runners created by the running call
    nitems,        \* number of runner entries (rc and definition) applied so far
    market_tv,     \* market_change.get("tv") as the running call has read it
                   \* (<<>> before it is read and when the delta has none)
    datetime_updated,  \* MarketBookCache._datetime_updated
    order_runners,         \* OrderBookCache.runners: (selectionId, handicap) ->
                           \* OrderBookRunner
    order_closed,          \* OrderBookCache.closed
    order_publish_time,    \* OrderBookCache.publish_time
    order_datetime_updated,\* OrderBookCache._datetime_updated
    order_changes,         \* the loop variable of OrderBookCache.update_cache
    order_pc,              \* where the running OrderBookCache.update_cache stands
    order_before,          \* history: the runner the cache held under the key of
                           \* order_changes before that entry was applied, in a
                           \* one-element list (<<>>: it held none)
    rrc,                   \* RaceCache.rrc: the payloads of its RunnerChange objects
    rpc,                   \* RaceCache.rpc
    race_publish_time,     \* RaceCache.publish_time
    race_datetime_updated, \* RaceCache._datetime_updated
    race_update            \* RaceCache.streaming_update

lvars == <<ladder, lbefore, lop, linit>>

mvars == <<publish_time, total_matched, market_definition, definition_status,
           runners, runner_dict, number_of_runners, pc, new_data, cur, found,
           created, nitems, market_tv, datetime_updated>>

ovars == <<order_runners, order_closed, order_publish_time, order_datetime_updated,
           order_changes, order_pc, order_before>>

rvars == <<rrc, rpc, race_publish_time, race_datetime_updated, race_update>>

vars == <<ladder, lbefore, lop, linit, publish_time, total_matched,
          market_definition, definition_status, runners, runner_dict,
          number_of_runners, pc, new_data, cur, found, created, nitems,
          market_tv, datetime_updated, order_runners, order_closed,
          order_publish_time, order_datetime_updated, order_changes, order_pc,
          order_before, rrc, rpc, race_publish_time, race_datetime_updated, race_update>>

(***************************************************************************)
(* Bounds and input domains                                                *)
(***************************************************************************)
MaxIdent == 2

\* runner entries (of "rc" and of a definition's "runners") applied in a run
MaxItems == 3

Idents == 1..MaxIdent

\* sizes carried by two-field rows (price, size): 0 is the deletion marker, two
\* nonzero values make a replacement visible
Sizes == {0, 1, 2}

\* sizes carried by three-field rows (position, price, size)
Sizes3 == {0, 1}

\* the middle field of a three-field row
MidPrices == {7}

\* rows whose size field is at Python index ds
Rows(ds) ==
    IF ds = 1 THEN {<<i, s>> : i \in Idents, s \in Sizes}
    ELSE {<<i, p, s>> : i \in Idents, p \in MidPrices, s \in Sizes3}

\* lists of rows handed to the constructor or to update: up to two rows, so
\* that a list can name one identity twice
RowLists(ds) ==
    {<<>>} \cup {<<a>> : a \in Rows(ds)} \cup {<<a, b>> : a \in Rows(ds), b \in Rows(ds)}

(***************************************************************************)
(* class Available                                                         *)
(***************************************************************************)

\* Python's comparison of two lists of numbers: lexicographic
RowLess(a, b) ==
    \E i \in 1..Len(a) :
        /\ i <= Len(b)
        /\ a[i] < b[i]
        /\ \A j \in 1..(i - 1) : a[j] = b[j]

\* x is placed strictly before y by list.sort(reverse=reverse)
Before(x, y, reverse) == IF reverse THEN RowLess(y, x) ELSE RowLess(x, y)

\* stable insertion of row r into an already sorted list
InsertRow(sorted, r, reverse) ==
    LET k == Cardinality({i \in 1..Len(sorted) : ~Before(r, sorted[i], reverse)})
    IN  SubSeq(sorted, 1, k) \o <<r>> \o SubSeq(sorted, k + 1, Len(sorted))

RECURSIVE SortFrom(_, _, _)
SortFrom(done, rest, reverse) ==
    IF rest = <<>> THEN done
    ELSE SortFrom(InsertRow(done, Head(rest), reverse), Tail(rest), reverse)

\* self.prices.sort(reverse=self.reverse)
SortRows(prices, reverse) == SortFrom(<<>>, prices, reverse)

\* the list comprehension of Available.sort
Render(prices, ds) ==
    [i \in 1..Len(prices) |-> [price |-> prices[i][ds], size |-> prices[i][ds + 1]]]

\* Available.sort(sort)
Available_sort(l, sort) ==
    LET p == IF sort THEN SortRows(l.prices, l.reverse) ELSE l.prices
    IN  [l EXCEPT !.prices = p, !.serialise = Render(p, l.deletion_select)]

\* Available.__init__(prices, deletion_select, reverse); prices is a list or None
Available_init(prices, ds, reverse) ==
    Available_sort([prices |-> prices, deletion_select |-> ds,
                    reverse |-> reverse, serialise |-> <<>>], TRUE)

\* Available.clear()
Available_clear(l) == Available_sort([l EXCEPT !.prices = <<>>], TRUE)

\* FirstMatch comparing the row's field 0 with the update's field 1
FirstMatch_WrongField(prices, book) ==
    LET S == {i \in 1..Len(prices) : prices[i][1] = book[2]}
    IN  IF S = {} THEN 0 ELSE CHOOSE i \in S : \A j \in S : i <= j

\* index of the first row whose field 0 equals that of book, 0 when none
\* (the inner for loop of update, left by break at the first match)
FirstMatch(prices, book) ==
    LET S == {i \in 1..Len(prices) : prices[i][1] = book[1]}
    IN  IF S = {} THEN 0 ELSE CHOOSE i \in S : \A j \in S : i <= j

\* ApplyBook that appends without asking for the sort
ApplyBook_NoSortFlag(st, book, ds) ==
    LET count == FirstMatch(st.prices, book)
    IN  IF count # 0
        THEN IF book[ds + 1] = 0
             THEN [st EXCEPT !.prices = SubSeq(st.prices, 1, count - 1)
                                         \o SubSeq(st.prices, count + 1, Len(st.prices))]
             ELSE [st EXCEPT !.prices[count] = book]
        ELSE IF book[ds + 1] # 0
             THEN [st EXCEPT !.prices = Append(st.prices, book)]
             ELSE st

\* ApplyBook that appends an unmatched row whatever its size
ApplyBook_AppendZero(st, book, ds) ==
    LET count == FirstMatch(st.prices, book)
    IN  IF count # 0
        THEN IF book[ds + 1] = 0
             THEN [st EXCEPT !.prices = SubSeq(st.prices, 1, count - 1)
                                         \o SubSeq(st.prices, count + 1, Len(st.prices))]
             ELSE [st EXCEPT !.prices[count] = book]
        ELSE [prices |-> Append(st.prices, book), sort |-> TRUE]

\* ApplyBook whose deletion drops the matched row and every row after it
ApplyBook_DeleteTail(st, book, ds) ==
    LET count == FirstMatch(st.prices, book)
    IN  IF count # 0
        THEN IF book[ds + 1] = 0
             THEN [st EXCEPT !.prices = SubSeq(st.prices, 1, count - 1)]
             ELSE [st EXCEPT !.prices[count] = book]
        ELSE IF book[ds + 1] # 0
             THEN [prices |-> Append(st.prices, book), sort |-> TRUE]
             ELSE st

\* ApplyBook whose replacement removes the old row and appends the new one
ApplyBook_ReplaceMoves(st, book, ds) ==
    LET count == FirstMatch(st.prices, book)
    IN  IF count # 0
        THEN IF book[ds + 1] = 0
             THEN [st EXCEPT !.prices = SubSeq(st.prices, 1, count - 1)
                                         \o SubSeq(st.prices, count + 1, Len(st.prices))]
             ELSE [st EXCEPT !.prices = Append(SubSeq(st.prices, 1, count - 1)
                                         \o SubSeq(st.prices, count + 1, Len(st.prices)), book)]
        ELSE IF book[ds + 1] # 0
             THEN [prices |-> Append(st.prices, book), sort |-> TRUE]
             ELSE st

\* one iteration of the outer loop of update; st is [prices, sort]
ApplyBook(st, book, ds) ==
    LET count == FirstMatch(st.prices, book)
    IN  IF count # 0
        THEN IF book[ds + 1] = 0
             THEN [st EXCEPT !.prices = SubSeq(st.prices, 1, count - 1)
                                         \o SubSeq(st.prices, count + 1, Len(st.prices))]
             ELSE [st EXCEPT !.prices[count] = book]
        ELSE IF book[ds + 1] # 0
             THEN [prices |-> Append(st.prices, book), sort |-> TRUE]
             ELSE st

RECURSIVE UpdateLoop(_, _, _)
UpdateLoop(st, book_update, ds) ==
    IF book_update = <<>> THEN st
    ELSE UpdateLoop(ApplyBook(st, Head(book_update), ds), Tail(book_update), ds)

\* Available.update(book_update)
Available_update(l, book_update) ==
    LET st == UpdateLoop([prices |-> l.prices, sort |-> FALSE], book_update,
                         l.deletion_select)
    IN  Available_sort([l EXCEPT !.prices = st.prices], st.sort)

(***************************************************************************)
(* Dictionaries of the feed                                                *)
(*                                                                         *)
(* A dictionary is a record over the keys the cache reads; a key that is   *)
(* absent holds <<>> and a key that is present with value v holds <<v>>.   *)
(***************************************************************************)

\* a runner-change entry of "rc" (also the keyword arguments of RunnerBook)
\* with no key at all
NoKeys ==
    [id |-> <<>>, hc |-> <<>>, ltp |-> <<>>, tv |-> <<>>, spn |-> <<>>, spf |-> <<>>,
     trd |-> <<>>, atb |-> <<>>, atl |-> <<>>, batb |-> <<>>, batl |-> <<>>,
     bdatb |-> <<>>, bdatl |-> <<>>, spb |-> <<>>, spl |-> <<>>, definition |-> <<>>]

\* a runner definition with no key at all (the {} of "definition or {}")
EmptyDefinition ==
    [id |-> <<>>, hc |-> <<>>, status |-> <<>>, bsp |-> <<>>,
     adjustmentFactor |-> <<>>, removalDate |-> <<>>]

\* key in d
Has(d, key) == d[key] # <<>>

\* d.get(key, default), for a key that is present or absent
GetOr(d, key, default) == IF d[key] = <<>> THEN default ELSE d[key][1]

(***************************************************************************)
(* class RunnerBook                                                        *)
(***************************************************************************)

\* RunnerBook.update_definition(definition)
RunnerBook_update_definition(r, definition) ==
    [r EXCEPT !.definition = definition,
              !.definition_status = definition.status,
              !.definition_bsp = definition.bsp,
              !.definition_adjustment_factor = definition.adjustmentFactor,
              !.definition_removal_date = definition.removalDate]

\* RunnerBook.__init__(**kw)
RunnerBook_init(kw) ==
    RunnerBook_update_definition(
        [selection_id |-> kw.id[1],
         last_price_traded |-> kw.ltp,
         total_matched |-> kw.tv,
         traded |-> Available_init(GetOr(kw, "trd", <<>>), 1, FALSE),
         available_to_back |-> Available_init(GetOr(kw, "atb", <<>>), 1, TRUE),
         best_available_to_back |-> Available_init(GetOr(kw, "batb", <<>>), 2, FALSE),
         best_display_available_to_back |-> Available_init(GetOr(kw, "bdatb", <<>>), 2, FALSE),
         available_to_lay |-> Available_init(GetOr(kw, "atl", <<>>), 1, FALSE),
         best_available_to_lay |-> Available_init(GetOr(kw, "batl", <<>>), 2, FALSE),
         best_display_available_to_lay |-> Available_init(GetOr(kw, "bdatl", <<>>), 2, FALSE),
         starting_price_back |-> Available_init(GetOr(kw, "spb", <<>>), 1, FALSE),
         starting_price_lay |-> Available_init(GetOr(kw, "spl", <<>>), 1, FALSE),
         starting_price_near |-> kw.spn,
         starting_price_far |-> kw.spf,
         handicap |-> GetOr(kw, "hc", 0),
         definition |-> EmptyDefinition,
         definition_status |-> <<>>,
         definition_bsp |-> <<>>,
         definition_adjustment_factor |-> <<>>,
         definition_removal_date |-> <<>>,
         serialised |-> <<>>],
        GetOr(kw, "definition", EmptyDefinition))

\* update_traded that merges whatever it is handed, like the other ladders
RunnerBook_update_traded_AlwaysMerges(traded, traded_update) ==
    Available_update(traded, traded_update)

\* RunnerBook.update_traded(traded_update), on the traded ladder
RunnerBook_update_traded(traded, traded_update) ==
    IF traded_update = <<>> THEN Available_clear(traded)
    ELSE Available_update(traded, traded_update)

\* serialise_available_to_back() that prefers the best ladder to the best
\* display ladder
RunnerBook_serialise_available_to_back_BestFirst(r) ==
    IF r.available_to_back.prices # <<>> THEN r.available_to_back.serialise
    ELSE IF r.best_available_to_back.prices # <<>>
         THEN r.best_available_to_back.serialise
    ELSE IF r.best_display_available_to_back.prices # <<>>
         THEN r.best_display_available_to_back.serialise
    ELSE <<>>

\* RunnerBook.serialise_available_to_back()
RunnerBook_serialise_available_to_back(r) ==
    IF r.available_to_back.prices # <<>> THEN r.available_to_back.serialise
    ELSE IF r.best_display_available_to_back.prices # <<>>
         THEN r.best_display_available_to_back.serialise
    ELSE IF r.best_available_to_back.prices # <<>>
         THEN r.best_available_to_back.serialise
    ELSE <<>>

\* RunnerBook.serialise_available_to_lay()
RunnerBook_serialise_available_to_lay(r) ==
    IF r.available_to_lay.prices # <<>> THEN r.available_to_lay.serialise
    ELSE IF r.best_display_available_to_lay.prices # <<>>
         THEN r.best_display_available_to_lay.serialise
    ELSE IF r.best_available_to_lay.prices # <<>>
         THEN r.best_available_to_lay.serialise
    ELSE <<>>

\* the dictionary RunnerBook.serialise() builds
SerialisedOf(r) ==
    [status |-> r.definition_status,
     ex |-> [tradedVolume |-> r.traded.serialise,
             availableToBack |-> RunnerBook_serialise_available_to_back(r),
             availableToLay |-> RunnerBook_serialise_available_to_lay(r)],
     sp |-> [nearPrice |-> r.starting_price_near,
             farPrice |-> r.starting_price_far,
             backStakeTaken |-> r.starting_price_back.serialise,
             layLiabilityTaken |-> r.starting_price_lay.serialise,
             actualSP |-> r.definition_bsp],
     adjustmentFactor |-> r.definition_adjustment_factor,
     removalDate |-> r.definition_removal_date,
     lastPriceTraded |-> r.last_price_traded,
     handicap |-> r.handicap,
     totalMatched |-> r.total_matched,
     selectionId |-> r.selection_id]

\* RunnerBook.serialise() that leaves the cached output as it is
RunnerBook_serialise_Skipped(r) == r

\* RunnerBook.serialise(): the cached output is <<>> for the {} of __init__
\* and <<d>> for a dictionary d
RunnerBook_serialise(r) == [r EXCEPT !.serialised = <<SerialisedOf(r)>>]

(***************************************************************************)
(* class MarketBookCache                                                   *)
(***************************************************************************)

\* the composite key of a runner
KeyOf(r) == <<r.selection_id, r.handicap>>

\* a lookup that leaves the handicap out of the key
LookupKey_IgnoresHc(d) == <<d.id[1], 0>>

\* the key update_cache and _process_market_definition look an entry up by
LookupKey(d) == <<d.id[1], GetOr(d, "hc", 0)>>

\* the dictionary comprehension of _add_new_runner: a later runner with the
\* same key replaces an earlier one
BuildRunnerDict(rs) ==
    [k \in {KeyOf(rs[i]) : i \in 1..Len(rs)} |->
        CHOOSE i \in 1..Len(rs) :
            /\ KeyOf(rs[i]) = k
            /\ \A j \in 1..Len(rs) : KeyOf(rs[j]) = k => j <= i]

\* an update that builds the runner anew from the entry, as a first image does
UpdateRunner_Rebuilds(r, nd) == RunnerBook_init(nd)

\* an update that stores tv whether or not the entry has it
UpdateRunner_DefaultsTv(r, nd) ==
    [r EXCEPT
       !.last_price_traded = IF Has(nd, "ltp") THEN nd.ltp ELSE @,
       !.total_matched = nd.tv]

\* an update that also writes the new last traded price into the cached output
UpdateRunner_PatchesOutput(r, nd) ==
    [r EXCEPT
       !.last_price_traded = IF Has(nd, "ltp") THEN nd.ltp ELSE @,
       !.total_matched = IF Has(nd, "tv") THEN nd.tv ELSE @,
       !.serialised = IF Has(nd, "ltp") /\ @ # <<>>
                      THEN <<[@[1] EXCEPT !.lastPriceTraded = nd.ltp]>> ELSE @]

\* the fields of an existing runner after the entry new_data (lines 210-235)
UpdateRunner(r, nd) ==
    [r EXCEPT
       !.last_price_traded = IF Has(nd, "ltp") THEN nd.ltp ELSE @,
       !.total_matched = IF Has(nd, "tv") THEN nd.tv ELSE @,
       !.starting_price_near = IF Has(nd, "spn") THEN nd.spn ELSE @,
       !.starting_price_far = IF Has(nd, "spf") THEN nd.spf ELSE @,
       !.traded = IF Has(nd, "trd") THEN RunnerBook_update_traded(@, nd.trd[1]) ELSE @,
       !.available_to_back = IF Has(nd, "atb") THEN Available_update(@, nd.atb[1]) ELSE @,
       !.available_to_lay = IF Has(nd, "atl") THEN Available_update(@, nd.atl[1]) ELSE @,
       !.best_available_to_back =
           IF Has(nd, "batb") THEN Available_update(@, nd.batb[1]) ELSE @,
       !.best_available_to_lay =
           IF Has(nd, "batl") THEN Available_update(@, nd.batl[1]) ELSE @,
       !.best_display_available_to_back =
           IF Has(nd, "bdatb") THEN Available_update(@, nd.bdatb[1]) ELSE @,
       !.best_display_available_to_lay =
           IF Has(nd, "bdatl") THEN Available_update(@, nd.bdatl[1]) ELSE @,
       !.starting_price_back = IF Has(nd, "spb") THEN Available_update(@, nd.spb[1]) ELSE @,
       !.starting_price_lay = IF Has(nd, "spl") THEN Available_update(@, nd.spl[1]) ELSE @]

\* _add_new_runner that does not rebuild the index
AddNewRunner_NoRebuild(rs, rdict, kw) ==
    LET appended == Append(rs, RunnerBook_init(kw))
    IN  [runners |-> appended,
         number_of_runners |-> Len(appended),
         runner_dict |-> rdict]

\* _add_new_runner that puts the new runner first
AddNewRunner_Prepends(rs, rdict, kw) ==
    LET inserted == <<RunnerBook_init(kw)>> \o rs
    IN  [runners |-> inserted,
         number_of_runners |-> Len(inserted),
         runner_dict |-> BuildRunnerDict(inserted)]

\* _add_new_runner(**kw): the list, the counter and the rebuilt index
AddNewRunner(rs, rdict, kw) ==
    LET appended == Append(rs, RunnerBook_init(kw))
    IN  [runners |-> appended,
         number_of_runners |-> Len(appended),
         runner_dict |-> BuildRunnerDict(appended)]

\* MarketBookCache.serialise (the keys that are not constant)
MarketBookCache_serialise ==
    [totalMatched |-> total_matched,
     status |-> definition_status,
     numberOfRunners |-> number_of_runners,
     runners |-> [i \in 1..Len(runners) |-> runners[i].serialised],
     publishTime |-> publish_time,
     marketDefinition |-> market_definition]

\* BaseResource.strip_datetime: the structured date/time value of an epoch
\* timestamp in milliseconds (None stays None).  BaseResource is imported by
\* cache.py; the operator follows the description of the conversion.
StripDatetime(value) ==
    IF value = <<>> THEN <<>> ELSE <<[epoch_ms |-> value[1]]>>

\* _datetime_updated as the base constructor leaves it: a value taken at
\* construction, before any publish time has been handed to the cache
BaseResource_init_datetime_updated == <<[clock |-> "construction"]>>

\* MarketBookCache.closed
MarketBookCache_closed == market_definition.status = <<"CLOSED">>

\* the state after MarketBookCache.__init__, no call running
MarketFresh ==
    /\ publish_time = 0
    /\ total_matched = <<>>
    /\ market_definition = [status |-> <<>>]
    /\ definition_status = <<>>
    /\ runners = <<>>
    /\ runner_dict = BuildRunnerDict(<<>>)
    /\ number_of_runners = 0
    /\ pc = "idle"
    /\ new_data = NoKeys
    /\ cur = 0
    /\ found = FALSE
    /\ created = {}
    /\ nitems = 0
    /\ market_tv = <<>>
    /\ datetime_updated = BaseResource_init_datetime_updated

(***************************************************************************)
(* classes UnmatchedOrder, OrderBookRunner, OrderBookCache                 *)
(*                                                                         *)
(* An order payload has the keys id, p, s, status, sm and, when the order  *)
(* has been matched, md; the other keys of UnmatchedOrder.__init__ are     *)
(* stored the way p and md are.  An order-runner-change has id and any of  *)
(* hc, fullImage, ml, mb, uo.  A dictionary keyed by order id or by runner *)
(* key is a function whose domain is the set of keys present.              *)
(***************************************************************************)

\* utils.create_date_string: the canonical string of a date/time value, None
\* for None.  utils is imported by cache.py; the operator follows the
\* description of the rendering.
CreateDateString(date) ==
    IF date = <<>> THEN <<>> ELSE <<[rendered |-> date[1].epoch_ms]>>

\* UnmatchedOrder.__init__(**payload)
UnmatchedOrder_init(payload) ==
    [bet_id |-> payload.id,
     price |-> payload.p,
     size |-> payload.s,
     status |-> payload.status,
     size_matched |-> payload.sm,
     matched_date |-> StripDatetime(payload.md),
     matched_date_string |-> CreateDateString(StripDatetime(payload.md))]

\* a dictionary without keys
EmptyDict == [k \in {} |-> <<>>]

\* update_unmatched that fills what the payload omits from the stored record
RECURSIVE OrderBookRunner_update_unmatched_FillsFromOld(_, _)
OrderBookRunner_update_unmatched_FillsFromOld(unmatched_orders, update) ==
    IF update = <<>> THEN unmatched_orders
    ELSE LET payload == Head(update)
             old == unmatched_orders[payload.id]
             built == UnmatchedOrder_init(payload)
             merged ==
                 IF payload.id \in DOMAIN unmatched_orders /\ payload.md = <<>>
                 THEN [built EXCEPT !.matched_date = old.matched_date,
                                    !.matched_date_string = old.matched_date_string]
                 ELSE built
         IN  OrderBookRunner_update_unmatched_FillsFromOld(
                 (payload.id :> merged) @@ unmatched_orders, Tail(update))

\* OrderBookRunner.update_unmatched(unmatched_orders), on the dictionary
RECURSIVE OrderBookRunner_update_unmatched(_, _)
OrderBookRunner_update_unmatched(unmatched_orders, update) ==
    IF update = <<>> THEN unmatched_orders
    ELSE OrderBookRunner_update_unmatched(
             (Head(update).id :> UnmatchedOrder_init(Head(update))) @@ unmatched_orders,
             Tail(update))

\* the keys an order-runner-change may have, all absent
NoOrderKeys ==
    [id |-> <<>>, hc |-> <<>>, fullImage |-> <<>>, ml |-> <<>>, mb |-> <<>>,
     uo |-> <<>>]

\* OrderBookRunner.__init__(**order_changes); the dictionary comprehension
\* keeps the last payload of an order id, as update_unmatched does
OrderBookRunner_init(kw) ==
    [selection_id |-> kw.id[1],
     full_image |-> kw.fullImage,
     matched_lays |-> Available_init(GetOr(kw, "ml", <<>>), 1, FALSE),
     matched_backs |-> Available_init(GetOr(kw, "mb", <<>>), 1, FALSE),
     unmatched_orders |->
         OrderBookRunner_update_unmatched(EmptyDict, GetOr(kw, "uo", <<>>)),
     handicap |-> GetOr(kw, "hc", 0),
     strategy_matches |-> <<>>]

\* lines 493-498 with elif in place of the second and third if
OrderBookRunner_apply_FirstOnly(runner, oc) ==
    IF Has(oc, "ml")
    THEN [runner EXCEPT !.matched_lays = Available_update(@, oc.ml[1])]
    ELSE IF Has(oc, "mb")
    THEN [runner EXCEPT !.matched_backs = Available_update(@, oc.mb[1])]
    ELSE IF Has(oc, "uo")
    THEN [runner EXCEPT !.unmatched_orders =
                            OrderBookRunner_update_unmatched(@, oc.uo[1])]
    ELSE runner

\* lines 493-498: the partial fields of an order-runner-change, applied to the
\* runner it names
OrderBookRunner_apply(runner, oc) ==
    [runner EXCEPT
       !.matched_lays = IF Has(oc, "ml") THEN Available_update(@, oc.ml[1]) ELSE @,
       !.matched_backs = IF Has(oc, "mb") THEN Available_update(@, oc.mb[1]) ELSE @,
       !.unmatched_orders =
           IF Has(oc, "uo") THEN OrderBookRunner_update_unmatched(@, oc.uo[1]) ELSE @]

\* lines 485-488: the key an order-runner-change is looked up by
OrderLookup(oc) == <<oc.id[1], GetOr(oc, "hc", 0)>>

\* lines 489-498 that merge a full image into the runner the cache holds
OrderBookCache_apply_MergesImage(rs, oc) ==
    LET lookup == OrderLookup(oc)
    IN  IF lookup \notin DOMAIN rs
        THEN (lookup :> OrderBookRunner_init(oc)) @@ rs
        ELSE [rs EXCEPT ![lookup] = OrderBookRunner_apply(@, oc)]

\* lines 485-498: self.runners after one order-runner-change
OrderBookCache_apply(rs, oc) ==
    LET lookup == OrderLookup(oc)
        full_image == GetOr(oc, "fullImage", FALSE)
    IN  IF full_image \/ lookup \notin DOMAIN rs
        THEN (lookup :> OrderBookRunner_init(oc)) @@ rs
        ELSE [rs EXCEPT ![lookup] = OrderBookRunner_apply(@, oc)]

\* the state after OrderBookCache.__init__ without keyword arguments
OrderFresh ==
    /\ order_runners = EmptyDict
    /\ order_closed = <<>>
    /\ order_publish_time = <<>>
    /\ order_datetime_updated = BaseResource_init_datetime_updated
    /\ order_changes = NoOrderKeys
    /\ order_pc = "idle"
    /\ order_before = <<>>

(***************************************************************************)
(* class RaceCache                                                         *)
(*                                                                         *)
(* A runner payload has the keys id and spd, a progress payload the key    *)
(* prg; update_cache is one step.                                          *)
(***************************************************************************)

\* line 552: runner_dict, id -> position in rrc of the last entry with that id
RaceRunnerDict(entries) ==
    [i \in {entries[k].id : k \in 1..Len(entries)} |->
        CHOOSE k \in 1..Len(entries) :
            /\ entries[k].id = i
            /\ \A l \in (k + 1)..Len(entries) : entries[l].id # i]

\* lines 554-559: the loop over update["rrc"], with the lookup built before it
RECURSIVE RaceRunnerLoop(_, _, _)
RaceRunnerLoop(entries, runner_dict_, updates) ==
    IF updates = <<>> THEN entries
    ELSE LET runner_update == Head(updates)
         IN  IF runner_update.id \in DOMAIN runner_dict_
             THEN RaceRunnerLoop(
                      [entries EXCEPT ![runner_dict_[runner_update.id]] = runner_update],
                      runner_dict_, Tail(updates))
             ELSE RaceRunnerLoop(Append(entries, runner_update), runner_dict_,
                                 Tail(updates))

\* the state after RaceCache.__init__ without rpc and rrc
RaceFresh ==
    /\ rrc = <<>>
    /\ rpc = <<>>
    /\ race_publish_time = <<>>
    /\ race_datetime_updated = BaseResource_init_datetime_updated
    /\ race_update = <<>>

\* no two rows of the list share field 0
DistinctIdentities(prices) ==
    \A i, j \in 1..Len(prices) : prices[i][1] = prices[j][1] => i = j

(***************************************************************************)
(* One ladder under construction, update and clear                         *)
(***************************************************************************)
\* the (deletion_select, reverse) pairs the caches construct ladders with:
\* Available(x, 1), Available(x, 1, True) and Available(x, 2)
LadderKinds == {<<1, FALSE>>, <<1, TRUE>>, <<2, FALSE>>}

LadderInit ==
    \E kind \in LadderKinds :
        \E prices \in RowLists(kind[1]) :
            /\ ladder = Available_init(prices, kind[1], kind[2])
            /\ lbefore = Available_init(prices, kind[1], kind[2])
            /\ lop = [kind |-> "init", arg |-> prices]
            /\ linit = DistinctIdentities(prices)
            /\ MarketFresh
            /\ OrderFresh
            /\ RaceFresh

LadderUpdate ==
    \E book_update \in RowLists(ladder.deletion_select) :
        /\ ladder' = Available_update(ladder, book_update)
        /\ lbefore' = ladder
        /\ lop' = [kind |-> "update", arg |-> book_update]
        /\ UNCHANGED linit
        /\ UNCHANGED <<mvars, ovars, rvars>>

LadderClear ==
    /\ ladder' = Available_clear(ladder)
    /\ lbefore' = ladder
    /\ lop' = [kind |-> "clear", arg |-> <<>>]
    /\ UNCHANGED linit
    /\ UNCHANGED <<mvars, ovars, rvars>>

LadderNext == LadderUpdate \/ LadderClear

SpecLadder == LadderInit /\ [][LadderNext]_vars

(***************************************************************************)
(* MarketBookCache.update_cache, step by step                              *)
(*                                                                         *)
(* The delta is read as the call proceeds: whether "marketDefinition",     *)
(* "tv" and a further entry of "rc" or of the definition's "runners" are   *)
(* present is decided at the step that tests for them.  streaming_update   *)
(* is only handed through to create_resource and is left out.  The loop    *)
(* variables are cleared once the iteration that used them has ended.      *)
(***************************************************************************)

\* lines 203-204 with a truth test in place of the membership test
AfterTv_Truthy(tv) == IF tv = <<>> \/ tv = <<0>> THEN total_matched ELSE tv

\* total_matched after lines 203-204; tv is <<>> when the delta has no "tv"
AfterTv(tv) == IF tv = <<>> THEN total_matched ELSE tv

\* a start of a call that stores the marketDefinition and leaves the flattened
\* status as it was
BeginWithDefinition_StaleStatus(times, statuses) ==
    /\ pc = "idle"
    /\ \E t \in times : publish_time' = t
    /\ \E st \in statuses : market_definition' = [status |-> st]
    /\ pc' = "def_runners"
    /\ created' = {}
    /\ UNCHANGED <<market_tv, total_matched, runners, runner_dict, number_of_runners,
                   new_data, cur, found, nitems, definition_status>>
    /\ UNCHANGED <<datetime_updated, lvars, ovars, rvars>>

\* lines 196-201 and 240-260: a call starts with a delta that has a
\* marketDefinition; the flattened scalars are all read the way status is
BeginWithDefinition(times, statuses) ==
    /\ pc = "idle"
    /\ \E t \in times : publish_time' = t
    /\ \E st \in statuses :
          /\ market_definition' = [status |-> st]
          /\ definition_status' = st
    /\ pc' = "def_runners"
    /\ created' = {}
    /\ UNCHANGED <<market_tv, total_matched, runners, runner_dict, number_of_runners, new_data,
                   cur, found, nitems>>
    /\ UNCHANGED <<datetime_updated, lvars, ovars, rvars>>

\* lines 196-204: a call starts with a delta that has no marketDefinition
BeginNoDefinition(times, tvs) ==
    /\ pc = "idle"
    /\ \E t \in times : publish_time' = t
    /\ \E tv \in tvs : market_tv' = tv /\ total_matched' = AfterTv(tv)
    /\ pc' = "rc"
    /\ created' = {}
    /\ UNCHANGED <<market_definition, definition_status, runners, runner_dict,
                   number_of_runners, new_data, cur, found, nitems>>
    /\ UNCHANGED <<datetime_updated, lvars, ovars, rvars>>

\* lines 262-271: one runner definition is looked up and applied
DefRunnerApply(definitions) ==
    /\ pc = "def_runners"
    /\ nitems < MaxItems
    /\ \E runner_definition \in definitions :
          LET key == LookupKey(runner_definition)
              kw == [NoKeys EXCEPT !.id = <<key[1]>>, !.hc = <<key[2]>>,
                                   !.definition = <<runner_definition>>]
              added == AddNewRunner(runners, runner_dict, kw)
          IN  /\ new_data' = kw
              /\ IF key \in DOMAIN runner_dict
                 THEN /\ runners' = [runners EXCEPT ![runner_dict[key]] =
                                        RunnerBook_update_definition(@, runner_definition)]
                      /\ cur' = runner_dict[key]
                      /\ found' = TRUE
                      /\ UNCHANGED <<runner_dict, number_of_runners, created>>
                 ELSE /\ runners' = added.runners
                      /\ runner_dict' = added.runner_dict
                      /\ number_of_runners' = added.number_of_runners
                      /\ cur' = Len(added.runners)
                      /\ found' = FALSE
                      /\ created' = created \cup {key}
    /\ pc' = "def_serialise"
    /\ nitems' = nitems + 1
    /\ UNCHANGED <<publish_time, total_matched, market_definition, definition_status>>
    /\ UNCHANGED <<market_tv, datetime_updated, lvars, ovars, rvars>>

\* line 272: runner.serialise() in _process_market_definition
DefRunnerSerialise ==
    /\ pc = "def_serialise"
    /\ runners' = [runners EXCEPT ![cur] = RunnerBook_serialise(@)]
    /\ pc' = "def_runners"
    /\ new_data' = NoKeys
    /\ cur' = 0
    /\ found' = FALSE
    /\ UNCHANGED <<publish_time, total_matched, market_definition, definition_status,
                   runner_dict, number_of_runners, created, nitems>>
    /\ UNCHANGED <<market_tv, datetime_updated, lvars, ovars, rvars>>

\* lines 262 and 203-204: the runner definitions are exhausted (or there are
\* none) and the market tv is read
DefRunnersEnd(tvs) ==
    /\ pc = "def_runners"
    /\ \E tv \in tvs : market_tv' = tv /\ total_matched' = AfterTv(tv)
    /\ pc' = "rc"
    /\ UNCHANGED <<publish_time, market_definition, definition_status, runners,
                   runner_dict, number_of_runners, new_data, cur, found, created, nitems>>
    /\ UNCHANGED <<datetime_updated, lvars, ovars, rvars>>

\* lines 207-237: one entry of "rc" is looked up and applied
RcApply(entries) ==
    /\ pc = "rc"
    /\ nitems < MaxItems
    /\ \E nd \in entries :
          LET key == LookupKey(nd)
              added == AddNewRunner(runners, runner_dict, nd)
          IN  /\ new_data' = nd
              /\ IF key \in DOMAIN runner_dict
                 THEN /\ runners' = [runners EXCEPT ![runner_dict[key]] =
                                        UpdateRunner(@, nd)]
                      /\ cur' = runner_dict[key]
                      /\ found' = TRUE
                      /\ UNCHANGED <<runner_dict, number_of_runners, created>>
                 ELSE /\ runners' = added.runners
                      /\ runner_dict' = added.runner_dict
                      /\ number_of_runners' = added.number_of_runners
                      /\ cur' = Len(added.runners)
                      /\ found' = FALSE
                      /\ created' = created \cup {key}
    /\ pc' = "rc_serialise"
    /\ nitems' = nitems + 1
    /\ UNCHANGED <<publish_time, total_matched, market_definition, definition_status>>
    /\ UNCHANGED <<market_tv, datetime_updated, lvars, ovars, rvars>>

\* line 238: runner.serialise() in update_cache
RcSerialise ==
    /\ pc = "rc_serialise"
    /\ runners' = [runners EXCEPT ![cur] = RunnerBook_serialise(@)]
    /\ pc' = "rc"
    /\ new_data' = NoKeys
    /\ cur' = 0
    /\ found' = FALSE
    /\ UNCHANGED <<publish_time, total_matched, market_definition, definition_status,
                   runner_dict, number_of_runners, created, nitems>>
    /\ UNCHANGED <<market_tv, datetime_updated, lvars, ovars, rvars>>

\* lines 206-207: "rc" is exhausted (or absent) and the call returns
RcEnd ==
    /\ pc = "rc"
    /\ pc' = "idle"
    /\ created' = {}
    /\ market_tv' = <<>>
    /\ UNCHANGED <<publish_time, total_matched, market_definition, definition_status,
                   runners, runner_dict, number_of_runners, new_data, cur, found, nitems>>
    /\ UNCHANGED <<datetime_updated, lvars, ovars, rvars>>

(***************************************************************************)
(* Deltas of SpecMarket: several runner keys, few fields                   *)
(***************************************************************************)

\* an entry for (id, hc) written without "hc"
ForId(i) == [NoKeys EXCEPT !.id = <<i>>]

\* an entry for (id, hc) written with "hc"
ForIdHc(i, h) == [NoKeys EXCEPT !.id = <<i>>, !.hc = <<h>>]

\* d with key set to value
With(d, key, value) == [d EXCEPT ![key] = <<value>>]

\* a first image of runner 1 with several fields
ImageEntry ==
    [ForId(1) EXCEPT !.ltp = <<1>>, !.tv = <<5>>, !.spn = <<3>>,
                     !.trd = <<<<<<1, 2>>>>>>,
                     !.atb = <<<<<<1, 1>>, <<2, 1>>>>>>,
                     !.atl = <<<<<<2, 1>>, <<1, 1>>>>>>,
                     !.spb = <<<<<<1, 1>>>>>>]

\* entries for the key (1, 0): bare, with a last traded price, with a total
\* matched of 0, bare with hc = 0 spelt out, and an image that has ladders;
\* a bare entry for (1, 1); an entry with a total matched of 0 for (2, 0)
MarketRcEntries ==
    {ForId(1), With(ForId(1), "ltp", 2), With(ForId(1), "tv", 0), ForIdHc(1, 0),
     ImageEntry, ForIdHc(1, 1), With(ForId(2), "tv", 0)}

\* a runner definition for id (and hc when given)
RunnerDefinition(i, h, status, removal) ==
    [EmptyDefinition EXCEPT !.id = <<i>>, !.hc = h, !.status = <<status>>,
                            !.removalDate = removal]

MarketDefinitions ==
    {RunnerDefinition(1, <<>>, "ACTIVE", <<>>),
     RunnerDefinition(1, <<>>, "REMOVED", <<9>>),
     RunnerDefinition(1, <<1>>, "ACTIVE", <<>>),
     RunnerDefinition(2, <<>>, "ACTIVE", <<>>)}

\* "status" of a marketDefinition: open, closed, or none
MarketStatuses == {<<"OPEN">>, <<"CLOSED">>, <<>>}

\* "tv" of the delta: absent, or 0
MarketTvs == {<<>>, <<0>>}

MarketTimes == {1}

MarketInit ==
    /\ MarketFresh
    /\ OrderFresh
    /\ RaceFresh
    /\ ladder = Available_init(<<>>, 1, FALSE)
    /\ lbefore = Available_init(<<>>, 1, FALSE)
    /\ lop = [kind |-> "init", arg |-> <<>>]
    /\ linit = TRUE

MarketNext ==
    \/ BeginWithDefinition(MarketTimes, MarketStatuses)
    \/ BeginNoDefinition(MarketTimes, MarketTvs)
    \/ DefRunnerApply(MarketDefinitions)
    \/ DefRunnerSerialise
    \/ DefRunnersEnd(MarketTvs)
    \/ RcApply(MarketRcEntries)
    \/ RcSerialise
    \/ RcEnd

SpecMarket == MarketInit /\ [][MarketNext]_vars

(***************************************************************************)
(* Deltas of SpecFields: every field of one runner, beside a second runner *)
(***************************************************************************)
LadderKeys == {"trd", "atb", "atl", "batb", "batl", "bdatb", "bdatl", "spb", "spl"}

\* the rows a delta carries for a ladder key: none, one row of nonzero size,
\* one row of size 0; the best and the best display ladders carry different
\* prices, so that their outputs can be told apart
LadderUpdates(key) ==
    IF key \in {"batb", "batl"}
    THEN {<<>>, <<<<1, 7, 1>>>>, <<<<1, 7, 0>>>>}
    ELSE IF key \in {"bdatb", "bdatl"}
    THEN {<<>>, <<<<1, 8, 1>>>>, <<<<1, 8, 0>>>>}
    ELSE {<<>>, <<<<1, 1>>>>, <<<<1, 0>>>>}

FieldsRcEntries ==
    {With(ForId(1), "ltp", 2), With(ForId(1), "tv", 0), With(ForId(1), "tv", 5),
     With(ForId(1), "spn", 3), With(ForId(1), "spf", 4), ImageEntry}
    \cup UNION {{With(ForId(1), key, u) : u \in LadderUpdates(key)} : key \in LadderKeys}
    \cup {ForId(2), With(ForId(2), "ltp", 2)}

FieldsDefinitions ==
    {[EmptyDefinition EXCEPT !.id = <<1>>, !.status = <<"ACTIVE">>, !.bsp = <<6>>,
                             !.adjustmentFactor = <<8>>]}

FieldsStatuses == {<<"OPEN">>}

\* the deltas of SpecFields carry no market "tv"
FieldsTvs == {<<>>}

FieldsTimes == {1}

FieldsNext ==
    \/ BeginWithDefinition(FieldsTimes, FieldsStatuses)
    \/ BeginNoDefinition(FieldsTimes, FieldsTvs)
    \/ DefRunnerApply(FieldsDefinitions)
    \/ DefRunnerSerialise
    \/ DefRunnersEnd(FieldsTvs)
    \/ RcApply(FieldsRcEntries)
    \/ RcSerialise
    \/ RcEnd

SpecFields == MarketInit /\ [][FieldsNext]_vars

(***************************************************************************)
(* SpecOrder: one OrderBookCache, update_cache unfolded into the steps of  *)
(* its loop over "orc"                                                     *)
(***************************************************************************)

\* lines 477-482: a call starts; closed is <<>> when the delta has no "closed"
OrderBegin(times, closeds) ==
    /\ order_pc = "idle"
    /\ \E t \in times :
          /\ order_datetime_updated' = StripDatetime(<<t>>)
          /\ order_publish_time' = <<t>>
    /\ \E closed \in closeds :
          order_closed' = IF closed = <<>> THEN order_closed ELSE closed
    /\ order_pc' = "orc"
    /\ UNCHANGED <<order_runners, order_changes, order_before>>
    /\ UNCHANGED <<lvars, mvars, rvars>>

\* lines 484-498: one order-runner-change is looked up and applied
OrcApply(entries) ==
    /\ order_pc = "orc"
    /\ \E oc \in entries :
          /\ order_changes' = oc
          /\ order_before' = IF OrderLookup(oc) \in DOMAIN order_runners
                              THEN <<order_runners[OrderLookup(oc)]>> ELSE <<>>
          /\ order_runners' = OrderBookCache_apply(order_runners, oc)
    /\ UNCHANGED <<order_closed, order_publish_time, order_datetime_updated, order_pc>>
    /\ UNCHANGED <<lvars, mvars, rvars>>

\* line 484: "orc" is exhausted (or absent) and the call returns
OrderEnd ==
    /\ order_pc = "orc"
    /\ order_pc' = "idle"
    /\ order_changes' = NoOrderKeys
    /\ order_before' = <<>>
    /\ UNCHANGED <<order_runners, order_closed, order_publish_time,
                   order_datetime_updated>>
    /\ UNCHANGED <<lvars, mvars, rvars>>

\* order "a" once matched, order "a" lapsed with nothing matched, order "b"
OrderMatched ==
    [id |-> "a", p |-> 2, s |-> 3, status |-> "E", sm |-> 1, md |-> <<1000>>]

OrderLapsed ==
    [id |-> "a", p |-> 2, s |-> 3, status |-> "EC", sm |-> 0, md |-> <<>>]

OrderOther ==
    [id |-> "b", p |-> 4, s |-> 1, status |-> "E", sm |-> 0, md |-> <<>>]

\* the values of "uo": absent, or a list of order payloads
OrderUos ==
    {<<>>, <<<<OrderMatched>>>>, <<<<OrderLapsed>>>>, <<<<OrderOther>>>>}

\* the values of "ml": absent, one row, or a row of size 0 beside a row
OrderMls == {<<>>, <<<<<<1, 1>>>>>>, <<<<<<1, 0>>, <<2, 1>>>>>>}

\* the values of "mb": absent, or one row
OrderMbs == {<<>>, <<<<<<1, 2>>>>>>}

\* order-runner-changes for runner (1, 0): every subset of ml, mb, uo without
\* fullImage, and with a true fullImage (where uo is absent or has order "b");
\* one with a false fullImage; and one for runner (2, 0)
OrderEntries ==
    {[NoOrderKeys EXCEPT !.id = <<1>>, !.ml = ml, !.mb = mb, !.uo = uo]
       : ml \in OrderMls, mb \in OrderMbs, uo \in OrderUos}
    \cup {[NoOrderKeys EXCEPT !.id = <<1>>, !.fullImage = <<TRUE>>, !.ml = ml,
                              !.mb = mb, !.uo = uo]
       : ml \in OrderMls, mb \in OrderMbs, uo \in {<<>>, <<<<OrderOther>>>>}}
    \cup {[NoOrderKeys EXCEPT !.id = <<1>>, !.fullImage = <<FALSE>>,
                              !.uo = <<<<OrderOther>>>>],
          [NoOrderKeys EXCEPT !.id = <<2>>, !.uo = <<<<OrderOther>>>>]}

\* "closed" of the delta: absent, or true
OrderCloseds == {<<>>, <<TRUE>>}

OrderTimes == {1}

OrderNext ==
    \/ OrderBegin(OrderTimes, OrderCloseds)
    \/ OrcApply(OrderEntries)
    \/ OrderEnd

SpecOrder == MarketInit /\ [][OrderNext]_vars

(***************************************************************************)
(* SpecRace: one RaceCache                                                 *)
(***************************************************************************)

\* entries the runner collection of the race may hold
MaxRrc == 3

\* lines 543-559: update_cache(update, publish_time)
RaceCache_update_cache(times, updates) ==
    /\ \E t \in times :
          /\ race_datetime_updated' = StripDatetime(<<t>>)
          /\ race_publish_time' = <<t>>
    /\ \E update \in updates :
          /\ race_update' = <<update>>
          /\ rpc' = IF Has(update, "rpc") THEN update.rpc ELSE rpc
          /\ rrc' = IF Has(update, "rrc")
                    THEN RaceRunnerLoop(rrc, RaceRunnerDict(rrc), update.rrc[1])
                    ELSE rrc
    /\ Len(rrc') <= MaxRrc
    /\ UNCHANGED <<lvars, mvars, ovars>>

\* runner payloads: runner 1 at two speeds, runner 2
RacePayloads ==
    {[id |-> 1, spd |-> 1], [id |-> 1, spd |-> 2], [id |-> 2, spd |-> 1]}

\* the values of "rrc": absent, or a list of up to two runner payloads
RaceRrcs ==
    {<<>>, <<<<>>>>}
    \cup {<<<<a>>>> : a \in RacePayloads}
    \cup {<<<<a, b>>>> : a \in RacePayloads, b \in RacePayloads}

\* the values of "rpc": absent, or a progress payload
RaceRpcs == {<<>>, <<[prg |-> 1]>>, <<[prg |-> 2]>>}

RaceUpdates == {[rpc |-> p, rrc |-> r] : p \in RaceRpcs, r \in RaceRrcs}

RaceTimes == {1}

\* RaceCache.__init__(**kwargs), with no rrc or with one runner payload
RaceInit ==
    /\ MarketFresh
    /\ OrderFresh
    /\ ladder = Available_init(<<>>, 1, FALSE)
    /\ lbefore = Available_init(<<>>, 1, FALSE)
    /\ lop = [kind |-> "init", arg |-> <<>>]
    /\ linit = TRUE
    /\ rrc \in {<<>>, <<[id |-> 1, spd |-> 1]>>}
    /\ rpc = <<>>
    /\ race_publish_time = <<>>
    /\ race_datetime_updated = BaseResource_init_datetime_updated
    /\ race_update = <<>>

RaceNext == RaceCache_update_cache(RaceTimes, RaceUpdates)

SpecRace == RaceInit /\ [][RaceNext]_vars

(***************************************************************************)
(* Properties of the ladder                                                *)
(***************************************************************************)

\* the last call was update with the single row book
SingleRowUpdate == lop.kind = "update" /\ Len(lop.arg) = 1

\* the rows p without the row at index i
WithoutRow(p, i) == [j \in 1..(Len(p) - 1) |-> IF j < i THEN p[j] ELSE p[j + 1]]

\* the rows are ordered by field 0 in the direction of the ladder
SortedByIdentity(l) ==
    \A i, j \in 1..Len(l.prices) :
        i < j => IF l.reverse THEN l.prices[i][1] >= l.prices[j][1]
                 ELSE l.prices[i][1] <= l.prices[j][1]

\* C1: a ladder built from rows with pairwise distinct identities is, after
\* every update and clear, sorted by identity in its direction, holds no
\* identity twice, and its serialised list has one {price, size} entry per
\* row in the order of the rows.
C1_SortedDistinctRendered ==
    linit =>
        /\ SortedByIdentity(ladder)
        /\ DistinctIdentities(ladder.prices)
        /\ Len(ladder.serialise) = Len(ladder.prices)
        /\ \A i \in 1..Len(ladder.prices) :
              /\ ladder.serialise[i].price = ladder.prices[i][ladder.deletion_select]
              /\ ladder.serialise[i].size = ladder.prices[i][ladder.deletion_select + 1]

\* C1 witness: a descending ladder of two rows reached by an update that names
\* one identity twice, appending it and then replacing it
C1_Witness ==
    /\ linit /\ lop.kind = "update" /\ ladder.reverse
    /\ Len(lop.arg) = 2 /\ lop.arg[1][1] = lop.arg[2][1] /\ lop.arg[1] # lop.arg[2]
    /\ Len(lbefore.prices) = 1 /\ Len(ladder.prices) = 2
    /\ ladder.prices[1][1] > ladder.prices[2][1]

\* C2: an update with one row of size 0 whose identity matches no row leaves
\* the rows and the serialised list as they were.
C2_ZeroSizeUnmatchedNoChange ==
    ( /\ SingleRowUpdate
      /\ lop.arg[1][lbefore.deletion_select + 1] = 0
      /\ \A i \in 1..Len(lbefore.prices) : lbefore.prices[i][1] # lop.arg[1][1] )
    => /\ ladder.prices = lbefore.prices
       /\ ladder.serialise = lbefore.serialise

\* C2 witness: such an update applied to a ladder that holds a row
C2_Witness ==
    /\ SingleRowUpdate
    /\ lop.arg[1][lbefore.deletion_select + 1] = 0
    /\ \A i \in 1..Len(lbefore.prices) : lbefore.prices[i][1] # lop.arg[1][1]
    /\ Len(lbefore.prices) = 1
    /\ ladder.prices = lbefore.prices

\* C3: on a ladder with pairwise distinct identities, an update with one row
\* of size 0 whose identity is that of an existing row removes exactly that
\* row; the other rows keep their content and order.
C3_ZeroSizeMatchedRemovesRow ==
    ( /\ SingleRowUpdate
      /\ DistinctIdentities(lbefore.prices)
      /\ lop.arg[1][lbefore.deletion_select + 1] = 0 )
    => \A i \in 1..Len(lbefore.prices) :
           lbefore.prices[i][1] = lop.arg[1][1]
           => /\ Len(ladder.prices) = Len(lbefore.prices) - 1
              /\ ladder.prices = WithoutRow(lbefore.prices, i)
              /\ ladder.serialise = WithoutRow(lbefore.serialise, i)

\* C3 witness: the first of two rows has been removed
C3_Witness ==
    /\ SingleRowUpdate
    /\ DistinctIdentities(lbefore.prices)
    /\ lop.arg[1][lbefore.deletion_select + 1] = 0
    /\ Len(lbefore.prices) = 2
    /\ lbefore.prices[1][1] = lop.arg[1][1]
    /\ ladder.prices = <<lbefore.prices[2]>>

\* C4: an update with one row of nonzero size whose identity is that of an
\* existing row puts the row at the position of the (first) matching row;
\* the number of rows and every other row are unchanged.
C4_NonzeroMatchedReplacesInPlace ==
    ( /\ SingleRowUpdate
      /\ lop.arg[1][lbefore.deletion_select + 1] # 0
      /\ \E i \in 1..Len(lbefore.prices) : lbefore.prices[i][1] = lop.arg[1][1] )
    => /\ Len(ladder.prices) = Len(lbefore.prices)
       /\ \E i \in 1..Len(lbefore.prices) :
             /\ lbefore.prices[i][1] = lop.arg[1][1]
             /\ \A k \in 1..(i - 1) : lbefore.prices[k][1] # lop.arg[1][1]
             /\ ladder.prices = [lbefore.prices EXCEPT ![i] = lop.arg[1]]

\* C4 witness: the second of two rows has been given a new content
C4_Witness ==
    /\ SingleRowUpdate
    /\ lop.arg[1][lbefore.deletion_select + 1] # 0
    /\ Len(lbefore.prices) = 2
    /\ lbefore.prices[1][1] # lop.arg[1][1]
    /\ lbefore.prices[2][1] = lop.arg[1][1]
    /\ lbefore.prices[2] # lop.arg[1]
    /\ ladder.prices = <<lbefore.prices[1], lop.arg[1]>>

\* every row of the list has a nonzero size field
AllNonzero(rows, ds) == \A i \in 1..Len(rows) : rows[i][ds + 1] # 0

\* C5 as stated, for every ladder state: after an update whose rows all have a
\* nonzero size, applying the same update once more yields the same rows and
\* the same serialised list.
C5_Original ==
    (lop.kind = "update" /\ AllNonzero(lop.arg, ladder.deletion_select))
    => LET again == Available_update(ladder, lop.arg)
       IN  /\ again.prices = ladder.prices
           /\ again.serialise = ladder.serialise

\* C5 amended: when the rows of the ladder had pairwise distinct identities
\* before an update whose rows all have a nonzero size, applying the same
\* update once more yields the same rows and the same serialised list.
C5_NonzeroUpdateIdempotent ==
    ( /\ lop.kind = "update"
      /\ AllNonzero(lop.arg, ladder.deletion_select)
      /\ DistinctIdentities(lbefore.prices) )
    => LET again == Available_update(ladder, lop.arg)
       IN  /\ again.prices = ladder.prices
           /\ again.serialise = ladder.serialise

\* C5 witness: an update that names one identity twice with different sizes
\* has changed the ladder, and applying it again changes nothing
C5_Witness ==
    /\ lop.kind = "update" /\ AllNonzero(lop.arg, ladder.deletion_select)
    /\ Len(lop.arg) = 2 /\ lop.arg[1][1] = lop.arg[2][1] /\ lop.arg[1] # lop.arg[2]
    /\ DistinctIdentities(lbefore.prices)
    /\ ladder.prices # lbefore.prices
    /\ Len(ladder.prices) = 2
    /\ Available_update(ladder, lop.arg) = ladder

(***************************************************************************)
(* Properties of the market cache                                          *)
(***************************************************************************)

\* the cached output of r is what serialise() would compute now
Fresh(r) == r.serialised = <<SerialisedOf(r)>>

\* a call stands between the change of a runner and its serialise()
Serialising == pc \in {"rc_serialise", "def_serialise"}

\* C6: at every point of update_cache outside the two lines between which one
\* entry is applied and its runner serialised (so after each entry of "rc",
\* after each runner of a marketDefinition, and on return), the cached output
\* of every runner equals what serialise() computes from its current state;
\* between those two lines only the runner being changed may differ.
C6_CachedOutputsCurrent ==
    \A i \in 1..Len(runners) : (Serialising /\ i = cur) \/ Fresh(runners[i])

\* C6 witness: in the middle of an "rc" list, after an entry has changed the
\* last traded price of a runner that holds traded volume, both runners of
\* the market have a current cached output
C6_Witness ==
    /\ pc = "rc" /\ created # {}
    /\ Len(runners) = 2
    /\ runners[1].traded.prices # <<>>
    /\ runners[1].last_price_traded = <<2>>
    /\ runners[1].serialised # <<>>
    /\ runners[1].serialised[1].lastPriceTraded = <<2>>
    /\ runners[2].serialised # <<>>

\* the runner field each key of an entry is stored in
FieldOf ==
    [ltp |-> "last_price_traded", tv |-> "total_matched",
     spn |-> "starting_price_near", spf |-> "starting_price_far",
     trd |-> "traded", atb |-> "available_to_back", atl |-> "available_to_lay",
     batb |-> "best_available_to_back", batl |-> "best_available_to_lay",
     bdatb |-> "best_display_available_to_back",
     bdatl |-> "best_display_available_to_lay",
     spb |-> "starting_price_back", spl |-> "starting_price_lay"]

\* the entry has "id", "ltp", possibly "hc", and nothing else
LtpOnly(nd) ==
    /\ Has(nd, "id") /\ Has(nd, "ltp")
    /\ [nd EXCEPT !.id = <<>>, !.hc = <<>>, !.ltp = <<>>] = NoKeys

\* the step that applies an entry of "rc" to a runner that exists
RcUpdateStep == pc = "rc" /\ pc' = "rc_serialise" /\ found'

\* C7: an entry for an existing runner that has only id (and hc) and ltp
\* changes that runner's last traded price and nothing else in the market
\* (until the runner's serialise(), which changes its cached output only);
\* for any entry, a key that is absent leaves its runner field as it was, and
\* the other runners and the definition-derived fields are as they were.
C7_AbsentKeysUntouched ==
    [][ /\ RcUpdateStep =>
            /\ LtpOnly(new_data') =>
                  runners' = [runners EXCEPT ![cur'].last_price_traded = new_data'.ltp]
            /\ Len(runners') = Len(runners)
            /\ \A i \in 1..Len(runners) : i # cur' => runners'[i] = runners[i]
            /\ \A key \in DOMAIN FieldOf :
                  ~Has(new_data', key) =>
                      runners'[cur'][FieldOf[key]] = runners[cur'][FieldOf[key]]
            /\ \A f \in {"selection_id", "handicap", "definition", "definition_status",
                          "definition_bsp", "definition_adjustment_factor",
                          "definition_removal_date", "serialised"} :
                  runners'[cur'][f] = runners[cur'][f]
        /\ pc = "rc_serialise" =>
            runners' = [runners EXCEPT ![cur].serialised = runners'[cur].serialised]
      ]_vars

\* C7 witness: an entry with only id and ltp has been applied to the first of
\* two runners, which holds traded volume, a total matched and a definition
\* status; its last traded price is the entry's and differs from the cached one
C7_Witness ==
    /\ pc = "rc_serialise" /\ found /\ LtpOnly(new_data)
    /\ Len(runners) = 2 /\ cur = 1
    /\ runners[1].traded.prices # <<>>
    /\ runners[1].available_to_back.prices # <<>>
    /\ runners[1].total_matched = <<5>>
    /\ runners[1].last_price_traded = new_data.ltp
    /\ runners[1].serialised[1].lastPriceTraded # new_data.ltp
    /\ runners[1].serialised[1].totalMatched = <<5>>

\* the step that applies an entry of "rc"
RcStep == pc = "rc" /\ pc' = "rc_serialise"

\* C8: an entry of "rc" is resolved by the pair (id, hc), hc being 0 when the
\* entry has none: if a runner with that pair is in the list the entry goes to
\* it and no runner is created, otherwise exactly one runner with that pair is
\* appended; so entries that differ in hc go to different runners and entries
\* with the same pair to one.
C8_RunnerIdentity ==
    [][ RcStep =>
          LET key == <<new_data'.id[1],
                       IF new_data'.hc = <<>> THEN 0 ELSE new_data'.hc[1]>>
              known == {i \in 1..Len(runners) : KeyOf(runners[i]) = key}
          IN  IF known # {}
              THEN /\ found'
                   /\ Len(runners') = Len(runners)
                   /\ cur' \in known
                   /\ KeyOf(runners'[cur']) = key
              ELSE /\ ~found'
                   /\ Len(runners') = Len(runners) + 1
                   /\ cur' = Len(runners')
                   /\ KeyOf(runners'[cur']) = key
                   /\ \A i \in 1..Len(runners) : KeyOf(runners'[i]) # key
      ]_vars

\* C8 witness: an "rc" list has created a runner for a pair that shares its id
\* with an existing runner and differs in hc, and a later entry of the same
\* list for the same pair has found that runner
C8_Witness ==
    /\ pc = "rc_serialise" /\ found
    /\ LookupKey(new_data) \in created
    /\ Len(runners) = 2 /\ cur = 2
    /\ runners[1].selection_id = runners[2].selection_id
    /\ runners[1].handicap # runners[2].handicap

\* C9: runner_dict has exactly the (selection_id, handicap) pairs of the
\* runners of the list as keys, maps each to the runner with that pair, no two
\* runners of the list share a pair, and numberOfRunners of the snapshot is
\* the length of its runners list.
C9_IndexConsistent ==
    /\ DOMAIN runner_dict = {KeyOf(runners[i]) : i \in 1..Len(runners)}
    /\ \A key \in DOMAIN runner_dict :
          /\ runner_dict[key] \in 1..Len(runners)
          /\ KeyOf(runners[runner_dict[key]]) = key
    /\ \A i, j \in 1..Len(runners) : KeyOf(runners[i]) = KeyOf(runners[j]) => i = j
    /\ MarketBookCache_serialise.numberOfRunners = Len(runners)
    /\ Len(MarketBookCache_serialise.runners) = Len(runners)

\* C9 witness: three runners, one created from a definition, after a call
C9_Witness ==
    /\ pc = "idle"
    /\ Len(runners) = 3
    /\ Cardinality(DOMAIN runner_dict) = 3
    /\ number_of_runners = 3
    /\ \E i \in 1..3 : runners[i].definition_status # <<>>

\* C10: every step leaves the runners that were in the list in the list, at
\* their positions: the list before is a prefix of the list after.
C10_RunnersOnlyAppended ==
    [][ /\ Len(runners) <= Len(runners')
        /\ \A i \in 1..Len(runners) : KeyOf(runners'[i]) = KeyOf(runners[i])
      ]_vars

\* C10 witness: runner 2 was seen first and has a total matched of 0, runner 1
\* was seen second and its definition says REMOVED; both are in the list, in
\* the order they were first seen
C10_Witness ==
    /\ pc = "idle"
    /\ Len(runners) = 2
    /\ KeyOf(runners[1]) = <<2, 0>> /\ runners[1].total_matched = <<0>>
    /\ KeyOf(runners[2]) = <<1, 0>> /\ runners[2].definition_status = <<"REMOVED">>

(***************************************************************************)
(* Properties of a delta that has both a definition and runner changes     *)
(***************************************************************************)

\* the step that applies one runner of a marketDefinition
DefStep == pc = "def_runners" /\ pc' = "def_serialise"

\* the scalar keys of an entry of "rc"
ScalarKeys == {"ltp", "tv", "spn", "spf"}

DefinitionFields ==
    {"definition", "definition_status", "definition_bsp",
     "definition_adjustment_factor", "definition_removal_date"}

\* C11: a call applies the marketDefinition first, the market "tv" second and
\* the entries of "rc" last.  A runner that the definition of the call lists
\* and the cache has not seen is appended when the definition is applied, in
\* the order of the definition's list; an entry of "rc" of the same call for
\* the same (id, hc) finds that runner, creates none, leaves its position and
\* its definition-derived fields as they are and stores its own fields in it.
C11_DefinitionTvThenRc ==
    [][ /\ market_definition' # market_definition =>
              pc = "idle" /\ pc' = "def_runners"
        /\ pc' \in {"def_runners", "def_serialise"} =>
              pc \in {"idle", "def_runners", "def_serialise"}
        /\ total_matched' # total_matched =>
              pc \in {"idle", "def_runners"} /\ pc' = "rc"
        /\ pc \in {"rc", "rc_serialise"} => pc' \in {"rc", "rc_serialise", "idle"}
        /\ (DefStep /\ ~found') =>
              /\ Len(runners') = Len(runners) + 1
              /\ cur' = Len(runners')
              /\ KeyOf(runners'[cur']) = LookupKey(new_data'.definition[1])
              /\ runners'[cur'].definition = new_data'.definition[1]
              /\ runners'[cur'].definition_status = new_data'.definition[1].status
        /\ (RcStep /\ LookupKey(new_data') \in created) =>
              LET key == LookupKey(new_data')
                  at == {i \in 1..Len(runners) : KeyOf(runners[i]) = key}
              IN  /\ Cardinality(at) = 1
                  /\ found'
                  /\ cur' \in at
                  /\ Len(runners') = Len(runners)
                  /\ KeyOf(runners'[cur']) = key
                  /\ \A f \in DefinitionFields : runners'[cur'][f] = runners[cur'][f]
                  /\ \A k \in ScalarKeys :
                        Has(new_data', k) => runners'[cur'][FieldOf[k]] = new_data'[k]
                  /\ \A k \in DOMAIN FieldOf \ (ScalarKeys \cup {"trd"}) :
                        Has(new_data', k) =>
                            runners'[cur'][FieldOf[k]] =
                                Available_update(runners[cur'][FieldOf[k]], new_data'[k][1])
      ]_vars

\* C11 witness: one call has applied a definition that lists runner (1, 0),
\* which the cache had not seen, and then an entry of "rc" for (1, 0) with a
\* last traded price; the market has that one runner, which holds the status
\* of the definition and the price of the entry
C11_Witness ==
    /\ pc = "rc_serialise" /\ found
    /\ LookupKey(new_data) = <<1, 0>> /\ <<1, 0>> \in created
    /\ Len(runners) = 1 /\ cur = 1
    /\ runners[1].definition_status = <<"ACTIVE">>
    /\ market_definition.status = <<"OPEN">>
    /\ new_data.ltp = <<2>>
    /\ runners[1].last_price_traded = <<2>>

(***************************************************************************)
(* Properties of the runner output                                         *)
(***************************************************************************)

\* the output of the first of three ladders that has rows, [] when none has
FirstNonEmpty(full, display, best) ==
    IF full.prices # <<>> THEN full.serialise
    ELSE IF display.prices # <<>> THEN display.serialise
    ELSE IF best.prices # <<>> THEN best.serialise
    ELSE <<>>

\* C16: in the output serialise() caches for a runner, availableToBack is the
\* output of the full-depth back ladder when that has rows, else that of the
\* best display back ladder when that has rows, else that of the best back
\* ladder when that has rows, else empty; availableToLay likewise on the lay
\* side.  (Stated of every cached output that is not awaiting serialise().)
C16_DepthFallback ==
    \A i \in 1..Len(runners) :
        (runners[i].serialised # <<>> /\ ~(Serialising /\ i = cur)) =>
            LET r == runners[i]
                ex == r.serialised[1].ex
            IN  /\ ex.availableToBack =
                      FirstNonEmpty(r.available_to_back,
                                    r.best_display_available_to_back,
                                    r.best_available_to_back)
                /\ ex.availableToLay =
                      FirstNonEmpty(r.available_to_lay,
                                    r.best_display_available_to_lay,
                                    r.best_available_to_lay)

\* C16 witness: a runner has no full-depth back rows, a best display back row
\* and a best back row that render differently: its cached availableToBack is
\* the best display row; its full-depth lay ladder has a row, which is its
\* cached availableToLay
C16_Witness ==
    /\ pc = "idle" /\ Len(runners) = 1
    /\ runners[1].available_to_back.prices = <<>>
    /\ runners[1].best_display_available_to_back.prices # <<>>
    /\ runners[1].best_available_to_back.prices # <<>>
    /\ runners[1].best_available_to_back.serialise
           # runners[1].best_display_available_to_back.serialise
    /\ runners[1].serialised[1].ex.availableToBack
           = runners[1].best_display_available_to_back.serialise
    /\ runners[1].available_to_lay.prices # <<>>
    /\ runners[1].serialised[1].ex.availableToLay = runners[1].available_to_lay.serialise

\* the rows of a list, as a set
RowSet(prices) == {prices[i] : i \in 1..Len(prices)}

\* C19: in an entry for an existing runner, "trd" present and empty leaves the
\* traded ladder without rows; any other ladder key present and empty leaves
\* its ladder as it was; "trd" present with rows is merged row by row: the
\* last row given for an identity is in the ladder when its size is nonzero
\* and no row of that identity is when its size is 0, and the rows of the
\* identities the update does not mention stay.
C19_EmptyTradedClears ==
    [][ RcUpdateStep =>
          LET nd == new_data'
              before == runners[cur']
              after == runners'[cur']
          IN  /\ (Has(nd, "trd") /\ nd.trd[1] = <<>>) =>
                    after.traded.prices = <<>> /\ after.traded.serialise = <<>>
              /\ \A k \in LadderKeys \ {"trd"} :
                    (Has(nd, k) /\ nd[k][1] = <<>>) =>
                        after[FieldOf[k]] = before[FieldOf[k]]
              /\ (Has(nd, "trd") /\ nd.trd[1] # <<>>) =>
                    LET rows == nd.trd[1]
                        named == {rows[j][1] : j \in 1..Len(rows)}
                    IN  /\ \A j \in 1..Len(rows) :
                              (\A l \in (j + 1)..Len(rows) : rows[l][1] # rows[j][1]) =>
                                  IF rows[j][2] = 0
                                  THEN \A row \in RowSet(after.traded.prices) :
                                          row[1] # rows[j][1]
                                  ELSE rows[j] \in RowSet(after.traded.prices)
                        /\ {row \in RowSet(after.traded.prices) : row[1] \notin named}
                             = {row \in RowSet(before.traded.prices) : row[1] \notin named}
      ]_vars

\* C19 witness: an entry whose "trd" is an empty list has been applied to a
\* runner whose cached output still shows the traded volume it held; the
\* traded ladder has no rows and the back ladder has kept its rows
C19_Witness ==
    /\ pc = "rc_serialise" /\ found
    /\ new_data.trd = <<<<>>>>
    /\ runners[cur].traded.prices = <<>>
    /\ runners[cur].serialised[1].ex.tradedVolume # <<>>
    /\ runners[cur].available_to_back.prices # <<>>

(***************************************************************************)
(* Properties of the order cache                                           *)
(***************************************************************************)

\* an order-runner-change has been applied and the call has not returned
OrcApplied == order_pc = "orc" /\ Has(order_changes, "id")

\* the runner the applied order-runner-change names, as the cache holds it
OrderRunnerNow == order_runners[OrderLookup(order_changes)]

\* the entry took lines 490-491: its fullImage is true or its key was unseen
FullImagePath ==
    OrcApplied /\ (order_changes.fullImage = <<TRUE>> \/ order_before = <<>>)

\* the entry took lines 492-498
PartialPath ==
    OrcApplied /\ order_changes.fullImage # <<TRUE>> /\ order_before # <<>>

\* the step that applies one order-runner-change
OrcStep == order_pc = "orc" /\ order_pc' = "orc"

\* the order ids a list of order payloads names
NamedIds(uo) == {uo[j].id : j \in 1..Len(uo)}

\* the last payload a list of order payloads has for an order id
LastPayload(uo, id) ==
    uo[CHOOSE j \in 1..Len(uo) :
           uo[j].id = id /\ \A l \in (j + 1)..Len(uo) : uo[l].id # id]

\* C12: after an order-runner-change with a true fullImage, or for a runner
\* key the cache has not seen, the runner under that key holds only what the
\* payload carries: its matched-lay and matched-back ladders have exactly the
\* rows of ml and mb (none when absent) and its unmatched orders are exactly
\* the orders of uo (none when absent), whatever the cache held before; the
\* runners under other keys are as they were.
C12_FullImageReplaces ==
    /\ [](FullImagePath =>
            LET oc == order_changes
                r == OrderRunnerNow
                ml == GetOr(oc, "ml", <<>>)
                mb == GetOr(oc, "mb", <<>>)
                uo == GetOr(oc, "uo", <<>>)
            IN  /\ Len(r.matched_lays.prices) = Len(ml)
                /\ RowSet(r.matched_lays.prices) = RowSet(ml)
                /\ Len(r.matched_backs.prices) = Len(mb)
                /\ RowSet(r.matched_backs.prices) = RowSet(mb)
                /\ DOMAIN r.unmatched_orders = NamedIds(uo)
                /\ \A id \in NamedIds(uo) :
                      r.unmatched_orders[id] = UnmatchedOrder_init(LastPayload(uo, id))
                /\ r.selection_id = oc.id[1]
                /\ r.handicap = GetOr(oc, "hc", 0)
                /\ r.full_image = oc.fullImage)
    /\ [][ OrcStep =>
             /\ DOMAIN order_runners' = DOMAIN order_runners \cup {OrderLookup(order_changes')}
             /\ \A k \in DOMAIN order_runners \ {OrderLookup(order_changes')} :
                   order_runners'[k] = order_runners[k]
         ]_vars

\* C12 witness: a full image without ml and without uo has been applied to a
\* runner that held matched lays and the unmatched orders "a" and "b"; the
\* runner now has no matched lays and no unmatched orders, the matched backs
\* of the image, and runner (2, 0) is still in the cache with its order
C12_Witness ==
    /\ OrcApplied
    /\ order_changes.fullImage = <<TRUE>>
    /\ order_changes.uo = <<>> /\ order_changes.ml = <<>> /\ Has(order_changes, "mb")
    /\ order_before # <<>>
    /\ DOMAIN order_before[1].unmatched_orders = {"a", "b"}
    /\ order_before[1].matched_lays.prices # <<>>
    /\ OrderRunnerNow.unmatched_orders = EmptyDict
    /\ OrderRunnerNow.matched_lays.prices = <<>>
    /\ OrderRunnerNow.matched_backs.prices # <<>>
    /\ <<2, 0>> \in DOMAIN order_runners
    /\ DOMAIN order_runners[<<2, 0>>].unmatched_orders = {"b"}

\* C13: when "uo" is applied to an existing runner without a full image, every
\* order id it names holds the record built from the last payload given for
\* that id and from nothing else, every order id it does not name holds the
\* record it held, and the ids held are those held before and those named;
\* whatever the entry carries, no order id held before is missing after.
C13_UnmatchedReplacedById ==
    PartialPath =>
        LET oc == order_changes
            before == order_before[1].unmatched_orders
            after == OrderRunnerNow.unmatched_orders
        IN  /\ DOMAIN before \subseteq DOMAIN after
            /\ Has(oc, "uo") =>
                  /\ DOMAIN after = DOMAIN before \cup NamedIds(oc.uo[1])
                  /\ \A id \in NamedIds(oc.uo[1]) :
                        after[id] = UnmatchedOrder_init(LastPayload(oc.uo[1], id))
                  /\ \A id \in DOMAIN before \ NamedIds(oc.uo[1]) : after[id] = before[id]

\* C13 witness: order "a", held with a matched date, has been named by a
\* payload without one and with status "EC": the record now has no matched
\* date and no matched date string, order "a" is still held, and order "b",
\* which the update does not name, is as it was
C13_Witness ==
    /\ PartialPath
    /\ order_changes.uo = <<<<OrderLapsed>>>>
    /\ DOMAIN order_before[1].unmatched_orders = {"a", "b"}
    /\ order_before[1].unmatched_orders["a"].matched_date # <<>>
    /\ OrderRunnerNow.unmatched_orders["a"].matched_date = <<>>
    /\ OrderRunnerNow.unmatched_orders["a"].matched_date_string = <<>>
    /\ OrderRunnerNow.unmatched_orders["a"].status = "EC"
    /\ OrderRunnerNow.unmatched_orders["b"] = order_before[1].unmatched_orders["b"]

\* the ladder after is the ladder before with the rows merged in: the last row
\* given for an identity is in it when its size is nonzero, no row of that
\* identity is when its size is 0, and the rows of other identities stay
MergedRows(before, after, rows) ==
    LET named == {rows[j][1] : j \in 1..Len(rows)}
    IN  /\ \A j \in 1..Len(rows) :
              (\A l \in (j + 1)..Len(rows) : rows[l][1] # rows[j][1]) =>
                  IF rows[j][2] = 0
                  THEN \A row \in RowSet(after.prices) : row[1] # rows[j][1]
                  ELSE rows[j] \in RowSet(after.prices)
        /\ {row \in RowSet(after.prices) : row[1] \notin named}
             = {row \in RowSet(before.prices) : row[1] \notin named}
        /\ after.serialise = Render(after.prices, after.deletion_select)

\* C14: an order-runner-change without a true fullImage, for a runner the cache
\* holds, applies ml, mb and uo each on its own: ml is merged into the
\* matched-lay ladder and into nothing else, mb into the matched-back ladder,
\* uo into the unmatched orders; the structure of an absent key is as it was,
\* and so are the runner's other attributes.
C14_PartialFieldsIndependent ==
    PartialPath =>
        LET oc == order_changes
            before == order_before[1]
            after == OrderRunnerNow
        IN  /\ IF Has(oc, "ml")
               THEN MergedRows(before.matched_lays, after.matched_lays, oc.ml[1])
               ELSE after.matched_lays = before.matched_lays
            /\ IF Has(oc, "mb")
               THEN MergedRows(before.matched_backs, after.matched_backs, oc.mb[1])
               ELSE after.matched_backs = before.matched_backs
            /\ IF Has(oc, "uo")
               THEN after.unmatched_orders =
                        OrderBookRunner_update_unmatched(before.unmatched_orders, oc.uo[1])
               ELSE after.unmatched_orders = before.unmatched_orders
            /\ after.selection_id = before.selection_id
            /\ after.handicap = before.handicap
            /\ after.full_image = before.full_image
            /\ after.strategy_matches = before.strategy_matches

\* C14 witness: an entry with ml and mb and without uo has been applied to a
\* runner that held a matched lay, no matched back and an unmatched order: a
\* matched lay has gone and another has come, the matched back has come, and
\* the unmatched orders are as they were
C14_Witness ==
    /\ PartialPath
    /\ Has(order_changes, "ml") /\ Has(order_changes, "mb") /\ ~Has(order_changes, "uo")
    /\ order_before[1].matched_lays.prices = <<<<1, 1>>>>
    /\ order_before[1].matched_backs.prices = <<>>
    /\ order_before[1].unmatched_orders # EmptyDict
    /\ OrderRunnerNow.matched_lays.prices = <<<<2, 1>>>>
    /\ OrderRunnerNow.matched_backs.prices = <<<<1, 2>>>>
    /\ OrderRunnerNow.unmatched_orders = order_before[1].unmatched_orders

(***************************************************************************)
(* Properties of the race cache                                            *)
(***************************************************************************)

\* the runner collection after a list of runner-changes when each of them, in
\* turn, replaces the payload of the entry of the collection that has its id
\* (the last one, should several have it), at that entry's position, and is
\* appended at the end when no entry of the collection has its id
RECURSIVE ReplaceOrAppend(_, _)
ReplaceOrAppend(entries, updates) ==
    IF updates = <<>> THEN entries
    ELSE LET runner_update == Head(updates)
             at == {k \in 1..Len(entries) : entries[k].id = runner_update.id}
         IN  IF at # {}
             THEN ReplaceOrAppend(
                      [entries EXCEPT ![CHOOSE k \in at : \A l \in at : l <= k] =
                                          runner_update],
                      Tail(updates))
             ELSE ReplaceOrAppend(Append(entries, runner_update), Tail(updates))

\* C15: a call of RaceCache.update_cache replaces the stored rpc by the rpc of
\* the update when it has one, and applies the runner-changes of its rrc in
\* turn, each replacing the whole payload of the entry that has its id, at the
\* same position, or being appended at the end when no entry has its id (so
\* that [{id 1, spd 1}] followed by [{id 1, spd 2}] leaves one entry).
C15_RaceReplaceOrAppend ==
    [][ race_update' # <<>> =>
          LET update == race_update'[1]
          IN  /\ rpc' = IF Has(update, "rpc") THEN update.rpc ELSE rpc
              /\ rrc' = IF Has(update, "rrc")
                        THEN ReplaceOrAppend(rrc, update.rrc[1])
                        ELSE rrc
      ]_vars

\* C21: the race cache is constructed without two entries of one id, and after
\* any number of update_cache calls no two entries of its runner collection
\* have the same id in their payload, also when the rrc list of one update
\* names an id the collection does not have more than once.
C21_NoDuplicateRaceIds ==
    \A k, l \in 1..Len(rrc) : rrc[k].id = rrc[l].id => k = l

(***************************************************************************)
(* Properties of the rows the caches hold                                  *)
(***************************************************************************)

\* the ladder has a row whose size field (Python index deletion_select) is 0
HasZeroSizeRow(l) ==
    \E i \in 1..Len(l.prices) : l.prices[i][l.deletion_select + 1] = 0

\* C22: no ladder of a runner of the market cache and no matched ladder of a
\* runner of the order cache has a row whose size field is 0, whether its rows
\* came through Available.update or through the constructor (the entry that
\* creates a runner, an order full image).
C22_NoZeroSizeRows ==
    /\ \A i \in 1..Len(runners) :
          \A key \in LadderKeys : ~HasZeroSizeRow(runners[i][FieldOf[key]])
    /\ \A k \in DOMAIN order_runners :
          /\ ~HasZeroSizeRow(order_runners[k].matched_lays)
          /\ ~HasZeroSizeRow(order_runners[k].matched_backs)

(***************************************************************************)
(* Properties of the market scalars                                        *)
(***************************************************************************)

\* a call of update_cache has returned (the constructor leaves publish_time
\* at the value it was handed, 0 in MarketFresh)
CallReturned == pc = "idle" /\ publish_time \in MarketTimes \cup FieldsTimes

\* C18: closed is true exactly when the status of the snapshot (the flattened
\* status of the last marketDefinition applied) is "CLOSED"; with no status,
\* as before any marketDefinition, it is false.
C18_ClosedIffStatusClosed ==
    /\ MarketBookCache_closed <=> MarketBookCache_serialise.status = <<"CLOSED">>
    /\ MarketBookCache_serialise.status = <<>> => ~MarketBookCache_closed

\* C18 witness: a definition that says CLOSED has been applied to a market that
\* has a runner, and the call has returned
C18_Witness ==
    /\ pc = "idle" /\ Len(runners) >= 1
    /\ MarketBookCache_closed
    /\ MarketBookCache_serialise.status = <<"CLOSED">>

\* C17: after every call update_cache(delta, publish_time) of the market
\* cache, _datetime_updated is the date/time value of that publish_time.
C17_DatetimeFollowsPublishTime ==
    CallReturned => datetime_updated = StripDatetime(<<publish_time>>)

\* the entry has "id", "tv", possibly "hc", and nothing else
TvOnly(nd) ==
    /\ Has(nd, "id") /\ Has(nd, "tv")
    /\ [nd EXCEPT !.id = <<>>, !.hc = <<>>, !.tv = <<>>] = NoKeys

\* the step on which the call reads the market "tv"
MarketTvStep == pc \in {"idle", "def_runners"} /\ pc' = "rc"

\* C20: a "tv" of 0 is a value like any other.  In an entry for an existing
\* runner it sets that runner's total matched to 0 and changes nothing else
\* (no ladder is cleared, no other field and no other runner changes); at
\* market level it sets the market's total matched to 0, where an absent "tv"
\* leaves it, and changes no runner.
C20_ZeroTvIsStored ==
    [][ /\ (RcUpdateStep /\ new_data'.tv = <<0>>) =>
              /\ runners'[cur'].total_matched = <<0>>
              /\ TvOnly(new_data') =>
                    runners' = [runners EXCEPT ![cur'].total_matched = <<0>>]
              /\ total_matched' = total_matched
        /\ MarketTvStep =>
              /\ market_tv' = <<0>> => total_matched' = <<0>>
              /\ market_tv' = <<>> => total_matched' = total_matched
              /\ runners' = runners
      ]_vars

\* C20 witness: in a call whose delta has a market "tv" of 0, an entry with a
\* "tv" of 0 has been applied to a runner that holds ladders and whose cached
\* output still shows a total matched of 5: the runner's total matched is 0,
\* its ladders have their rows, and the market's total matched is 0
C20_Witness ==
    /\ pc = "rc_serialise" /\ found /\ TvOnly(new_data)
    /\ new_data.tv = <<0>>
    /\ runners[cur].total_matched = <<0>>
    /\ runners[cur].serialised[1].totalMatched = <<5>>
    /\ runners[cur].traded.prices # <<>>
    /\ runners[cur].available_to_back.prices # <<>>
    /\ runners[cur].last_price_traded = <<1>>
    /\ market_tv = <<0>>
    /\ total_matched = <<0>>

(***************************************************************************)
(* Properties of a snapshot read while a call is running                   *)
(*                                                                         *)
(* A reader evaluates MarketBookCache.serialise in a state of the model,   *)
(* that is between two steps of update_cache.                              *)
(***************************************************************************)

\* the "runners" list a reader gets in the current state
ReaderSees == MarketBookCache_serialise.runners

\* over one step, the output a reader gets for a runner of the list either
\* stays the object it was or, on that runner's serialise(), becomes the
\* output computed from the runner as its change left it
SwappedWhole ==
    \A i \in 1..Len(runners) :
        \/ ReaderSees'[i] = ReaderSees[i]
        \/ /\ Serialising /\ i = cur
           /\ ReaderSees'[i] = <<SerialisedOf(runners[i])>>

\* C23 as stated: at every point of a running update_cache call, a reader
\* gets, for every runner of the list, a complete output that is the runner's
\* output before or after its change: outputs are swapped whole, and no
\* runner of the list has an empty output.
C23_Original ==
    [][ /\ SwappedWhole
        /\ \A i \in 1..Len(runners') : ReaderSees'[i] # <<>>
      ]_vars

\* C23: at every point of a running update_cache call, a reader gets, for
\* every runner of the list, either a complete output that is the runner's
\* output before or after its change (outputs are swapped whole), or the empty
\* output {}; the empty output is that of the last runner of the list, which
\* the running call has appended and not yet serialised.
C23_SwappedWholeOrEmpty ==
    [][ /\ SwappedWhole
        /\ \A i \in 1..Len(runners') :
              ReaderSees'[i] = <<>> =>
                  /\ pc' \in {"rc_serialise", "def_serialise"}
                  /\ ~found'
                  /\ i = cur' /\ i = Len(runners')
                  /\ KeyOf(runners'[i]) \in created'
      ]_vars

\* C23 witness: an entry of "rc" has appended a second runner that is not yet
\* serialised: a reader gets the complete output of the first runner, with
\* the last traded price an earlier entry of the call gave it, and {} for the
\* second
C23_Witness ==
    /\ pc = "rc_serialise" /\ ~found
    /\ Len(runners) = 2 /\ cur = 2
    /\ ReaderSees[2] = <<>>
    /\ ReaderSees[1] = <<SerialisedOf(runners[1])>>
    /\ ReaderSees[1][1].lastPriceTraded = <<2>>
    /\ KeyOf(runners[1]) \in created

====
